---------------------------- MODULE Spec2Model ----------------------------
(***************************************************************************)
(* Model of the Clockify report generator (src/app.py and its standalone   *)
(* twin src/csv_monthly_projects.py): the duration parser, the column      *)
(* sniffer, the month label orderer, the project folder aggregator and     *)
(* the workbook builder.                                                   *)
(*                                                                         *)
(* Text is modelled as a sequence of one-character strings, so that the    *)
(* regular expressions, str.strip, str.lower, str.split and the string     *)
(* comparisons of the source are computed character by character.          *)
(* Floating point values are modelled as IEEE 754 doubles, bit for bit.     *)
(***************************************************************************)
EXTENDS Integers, Sequences, FiniteSets, TLC

VARIABLES
    pc,                 \* position of the running operation
    arg,                \* argument of the pure function under check
    ret,                \* what the pure function returned
    root,               \* the root folder handed to generate_workbook_bytes
    todo,               \* items of sorted(os.listdir(root)) not yet visited
    wb,                 \* the openpyxl workbook: a sequence of sheets
    added,              \* generate_workbook_bytes: added
    project_summaries,  \* generate_workbook_bytes: project_summaries
    logs,               \* generate_workbook_bytes: logs
    item,               \* generate_workbook_bytes: the item of the root being visited
    month_totals        \* generate_workbook_bytes: what process_project_folder returned

vars == <<pc, arg, ret, root, todo, wb, added, project_summaries, logs, item,
          month_totals>>

-----------------------------------------------------------------------------
(* Characters and strings                                                  *)

\* The characters the model's texts are written in, with their code points
\* (what Python's ord gives): digits from 48, A-Z from 65, a-z from 97.
Digits == << "0", "1", "2", "3", "4", "5", "6", "7", "8", "9" >>

Uppers == << "A", "B", "C", "D", "E", "F", "G", "H", "I", "J", "K", "L", "M",
             "N", "O", "P", "Q", "R", "S", "T", "U", "V", "W", "X", "Y", "Z" >>

Lowers == << "a", "b", "c", "d", "e", "f", "g", "h", "i", "j", "k", "l", "m",
             "n", "o", "p", "q", "r", "s", "t", "u", "v", "w", "x", "y", "z" >>

Punctuation ==
    " " :> 32 @@ "'" :> 39 @@ "(" :> 40 @@ ")" :> 41 @@ "+" :> 43 @@
    "," :> 44 @@ "-" :> 45 @@ "." :> 46 @@ ":" :> 58 @@ "[" :> 91 @@
    "]" :> 93 @@ "_" :> 95

OrdTable ==
    [c \in {Digits[i] : i \in 1..10} |-> 47 + (CHOOSE i \in 1..10 : Digits[i] = c)]
    @@ [c \in {Uppers[i] : i \in 1..26} |-> 64 + (CHOOSE i \in 1..26 : Uppers[i] = c)]
    @@ [c \in {Lowers[i] : i \in 1..26} |-> 96 + (CHOOSE i \in 1..26 : Lowers[i] = c)]
    @@ Punctuation

\* ord(c)
Ord(c) == OrdTable[c]

Between(n, lo, hi) == lo <= n /\ n <= hi

OrdZero == 48

OrdUpperA == 65

OrdUpperZ == 90

\* \d of a regular expression, on ASCII text
IsDigit(c) == Between(Ord(c), OrdZero, OrdZero + 9)

IsUpper(c) == Between(Ord(c), OrdUpperA, OrdUpperZ)

IsSpace(c) == c = " "

DigitVal(c) == Ord(c) - OrdZero

\* str.lower()
LowerOf(c, n) == IF Between(n, OrdUpperA, OrdUpperZ) THEN Lowers[n - OrdUpperA + 1] ELSE c

LowerChar(c) == LowerOf(c, Ord(c))

Lower(s) == [i \in 1..Len(s) |-> LowerChar(s[i])]

\* str.strip()
RECURSIVE LStrip(_)
LStrip(s) == IF s # <<>> /\ IsSpace(Head(s)) THEN LStrip(Tail(s)) ELSE s

RECURSIVE RStrip(_)
RStrip(s) ==
    IF s # <<>> /\ IsSpace(s[Len(s)]) THEN RStrip(SubSeq(s, 1, Len(s) - 1)) ELSE s

Strip(s) == RStrip(LStrip(s))

\* Python's < on str: lexicographic by code point, a proper prefix first.
RECURSIVE StrLess(_, _)
StrLess(a, b) ==
    IF b = <<>> THEN FALSE
    ELSE IF a = <<>> THEN TRUE
    ELSE IF Head(a) # Head(b) THEN Ord(Head(a)) < Ord(Head(b))
    ELSE StrLess(Tail(a), Tail(b))

\* str.startswith / str.endswith / the in operator on str
StartsWith(s, p) == Len(s) >= Len(p) /\ SubSeq(s, 1, Len(p)) = p

EndsWith(s, p) == Len(s) >= Len(p) /\ SubSeq(s, Len(s) - Len(p) + 1, Len(s)) = p

Contains(s, p) ==
    \E i \in 1..(Len(s) - Len(p) + 1) : SubSeq(s, i, i + Len(p) - 1) = p

AllDigits(s) == \A i \in 1..Len(s) : IsDigit(s[i])

\* int(s) of a string of decimal digits
RECURSIVE IntOf(_)
IntOf(s) ==
    IF s = <<>> THEN 0
    ELSE 10 * IntOf(SubSeq(s, 1, Len(s) - 1)) + DigitVal(s[Len(s)])

\* re.split / str.split on single separator characters: the pieces between
\* separators, empty pieces kept.
FirstOf(s, seps) ==
    CHOOSE i \in 1..Len(s) : s[i] \in seps /\ \A j \in 1..(i - 1) : s[j] \notin seps

RECURSIVE SplitAt(_, _, _)
SplitAt(s, seps, k) ==
    IF k = 0 THEN <<s>>
    ELSE <<SubSeq(s, 1, k - 1)>>
             \o SplitAt(SubSeq(s, k + 1, Len(s)), seps,
                        IF \E i \in (k + 1)..Len(s) : s[i] \in seps
                        THEN FirstOf(SubSeq(s, k + 1, Len(s)), seps) ELSE 0)

SplitOn(s, seps) ==
    SplitAt(s, seps, IF \E i \in 1..Len(s) : s[i] \in seps THEN FirstOf(s, seps) ELSE 0)

\* re.sub(r'[^\d]', '', p): every character that is no digit removed
OnlyDigits(s) == SelectSeq(s, IsDigit)

-----------------------------------------------------------------------------
(* Month Label Orderer: month_sort_key                                     *)

MONTH_MAP ==
    ( <<"j","a","n","u","a","r","y">>         :> 1  @@
      <<"f","e","b","r","u","a","r","y">>     :> 2  @@
      <<"m","a","r","c","h">>                 :> 3  @@
      <<"a","p","r","i","l">>                 :> 4  @@
      <<"m","a","y">>                         :> 5  @@
      <<"j","u","n","e">>                     :> 6  @@
      <<"j","u","l","y">>                     :> 7  @@
      <<"a","u","g","u","s","t">>             :> 8  @@
      <<"s","e","p","t","e","m","b","e","r">> :> 9  @@
      <<"o","c","t","o","b","e","r">>         :> 10 @@
      <<"n","o","v","e","m","b","e","r">>     :> 11 @@
      <<"d","e","c","e","m","b","e","r">>     :> 12 )

\* The key of a label nothing is recognised in.
UnknownKey == 9999

\* The year assumed for a month name without a year: 2000 + month.
NoYearBase == 2000

\* re.match(r'(\d{4})[-_](\d{2})$', n)
MatchesYearMonth(n) ==
    /\ Len(n) = 7
    /\ AllDigits(SubSeq(n, 1, 4))
    /\ n[5] \in {"-", "_"}
    /\ AllDigits(SubSeq(n, 6, 7))

\* re.split(r'[_\-\s]', n.lower())
LabelParts(n) == SplitOn(Lower(n), {"_", "-", " "})

IsYearToken(q) == Len(q) = 4 /\ AllDigits(q)

\* for q in parts: if re.fullmatch(r'\d{4}', q): year = int(q); break
\* 0 stands for None: the code tests "if year", which takes 0 for None too.
FirstYear(parts) ==
    IF \E i \in 1..Len(parts) : IsYearToken(parts[i])
    THEN IntOf(parts[CHOOSE i \in 1..Len(parts) :
                   IsYearToken(parts[i]) /\ \A j \in 1..(i - 1) : ~IsYearToken(parts[j])])
    ELSE 0

\* if year: return (year*100 + MONTH_MAP[p], n)
\* return (2000 + MONTH_MAP[p], n)
MonthNameKey(year, month, n) ==
    IF year # 0 THEN <<year * 100 + month, n>> ELSE <<NoYearBase + month, n>>

IsMonthName(p) == p \in DOMAIN MONTH_MAP

\* for p in parts: if p in MONTH_MAP: ... (the first such part decides)
PartsKey(parts, n) ==
    IF \E i \in 1..Len(parts) : IsMonthName(parts[i])
    THEN MonthNameKey(FirstYear(parts),
                      MONTH_MAP[parts[CHOOSE i \in 1..Len(parts) :
                          IsMonthName(parts[i])
                              /\ \A j \in 1..(i - 1) : ~IsMonthName(parts[j])]],
                      n)
    ELSE <<UnknownKey, n>>

\* y = int(m.group(1)); mo = int(m.group(2)); return (y*100 + mo, n)
YearMonthKey(y, mo, n) == <<y * 100 + mo, n>>

\* the key of n = name.strip()
StrippedKey(n) ==
    IF MatchesYearMonth(n)
    THEN YearMonthKey(IntOf(SubSeq(n, 1, 4)), IntOf(SubSeq(n, 6, 7)), n)
    ELSE PartsKey(LabelParts(n), n)

month_sort_key(name) ==
    IF name = <<>> THEN <<UnknownKey, name>> ELSE StrippedKey(Strip(name))

\* Python's < on the (int, str) tuples month_sort_key returns.
KeyLess(a, b) == a[1] < b[1] \/ (a[1] = b[1] /\ StrLess(a[2], b[2]))

MonthBefore(x, y) == KeyLess(month_sort_key(x), month_sort_key(y))

\* sorted(labels, key=month_sort_key): ascending and stable (an element goes
\* after every element already placed whose key is not greater).
RECURSIVE InsertByMonthKey(_, _)
InsertByMonthKey(x, acc) ==
    IF acc = <<>> THEN <<x>>
    ELSE IF MonthBefore(x, Head(acc)) THEN <<x>> \o acc
    ELSE <<Head(acc)>> \o InsertByMonthKey(x, Tail(acc))

RECURSIVE SortMonthLabels(_)
SortMonthLabels(labels) ==
    IF labels = <<>> THEN <<>>
    ELSE InsertByMonthKey(labels[Len(labels)],
                          SortMonthLabels(SubSeq(labels, 1, Len(labels) - 1)))

-----------------------------------------------------------------------------
(* Integers                                                                 *)

Abs(n) == IF n < 0 THEN -n ELSE n

RECURSIVE Pow10(_)
Pow10(k) == IF k = 0 THEN 1 ELSE 10 * Pow10(k - 1)

(* Floats: the doubles of IEEE 754, in the arithmetic Python does on them.  *)
(* A float [neg, m, e] is (-1)^neg * m * 2^e.  The mantissa m is a natural  *)
(* number of at most MantissaBits bits, odd, written in base 2^LimbBits as  *)
(* the sequence of its digits ("limbs"), the least significant first:       *)
(* m = m[1] + m[2] * 2^15 + m[3] * 2^30 + ...; 0.0 has the empty mantissa.  *)
(* Every operation gives the double nearest to the exact result, a tie      *)
(* going to the even mantissa.  Infinities, NaN, subnormals and the sign of *)
(* zero are left out.                                                       *)

\* The bits of a double's mantissa.
MantissaBits == 53

\* The bits of a limb: products of limbs stay below 2^31.
LimbBits == 15

Base == 2^LimbBits

\* The limbs floor(n * 2^k / d) is computed with before it is rounded.
GuardLimbs == (MantissaBits + LimbBits + 7) \div LimbBits

\* A natural number as its limbs.
RECURSIVE NatOf(_)
NatOf(n) == IF n = 0 THEN <<>> ELSE <<n % Base>> \o NatOf(n \div Base)

RECURSIVE IntOfNat(_)
IntOfNat(a) == IF a = <<>> THEN 0 ELSE Head(a) + Base * IntOfNat(Tail(a))

RECURSIVE TrimNat(_)
TrimNat(a) ==
    IF a = <<>> \/ a[Len(a)] # 0 THEN a ELSE TrimNat(SubSeq(a, 1, Len(a) - 1))

LimbAt(a, i) == IF i <= Len(a) THEN a[i] ELSE 0

Longer(a, b) == IF Len(a) < Len(b) THEN Len(b) ELSE Len(a)

\* a + b: the limbs from the i-th on, with the carry into the i-th
RECURSIVE AddFrom(_, _, _, _)
AddFrom(a, b, i, carry) ==
    IF i > Longer(a, b) THEN (IF carry = 0 THEN <<>> ELSE <<carry>>)
    ELSE <<(LimbAt(a, i) + LimbAt(b, i) + carry) % Base>>
             \o AddFrom(a, b, i + 1, (LimbAt(a, i) + LimbAt(b, i) + carry) \div Base)

AddNat(a, b) == AddFrom(a, b, 1, 0)

\* a - b for a >= b: the limbs from the i-th on, with the borrow from the i-th
RECURSIVE SubFrom(_, _, _, _)
SubFrom(a, b, i, borrow) ==
    IF i > Len(a) THEN <<>>
    ELSE <<(LimbAt(a, i) - LimbAt(b, i) - borrow + Base) % Base>>
             \o SubFrom(a, b, i + 1,
                        IF LimbAt(a, i) - LimbAt(b, i) - borrow < 0 THEN 1 ELSE 0)

SubNat(a, b) == TrimNat(SubFrom(a, b, 1, 0))

LessNat(a, b) ==
    \/ Len(a) < Len(b)
    \/ /\ Len(a) = Len(b)
       /\ \E i \in 1..Len(a) : a[i] < b[i] /\ \A j \in (i + 1)..Len(a) : a[j] = b[j]

\* a * k for 0 < k < Base: the limbs from the i-th on
RECURSIVE TimesFrom(_, _, _, _)
TimesFrom(a, k, i, carry) ==
    IF i > Len(a) THEN (IF carry = 0 THEN <<>> ELSE <<carry>>)
    ELSE <<(a[i] * k + carry) % Base>>
             \o TimesFrom(a, k, i + 1, (a[i] * k + carry) \div Base)

TimesSmall(a, k) == TimesFrom(a, k, 1, 0)

\* a * 2^s
ShiftLeft(a, s) ==
    IF a = <<>> THEN a
    ELSE [i \in 1..(s \div LimbBits) |-> 0] \o TimesSmall(a, 2^(s % LimbBits))

\* floor(a / 2^s), by limbs q and bits r: s = q * LimbBits + r
ShiftedRight(a, q, r) ==
    TrimNat([i \in 1..(Len(a) - q) |->
                (a[i + q] \div 2^r) + (LimbAt(a, i + q + 1) % 2^r) * 2^(LimbBits - r)])

ShiftRight(a, s) == ShiftedRight(a, s \div LimbBits, s % LimbBits)

\* The i-th bit of a, the lowest being the first.
BitOf(a, i) ==
    (LimbAt(a, (i - 1) \div LimbBits + 1) \div 2^((i - 1) % LimbBits)) % 2

\* The lowest k bits of a are 0.
LowBitsZero(a, k) ==
    /\ \A i \in 1..(k \div LimbBits) : LimbAt(a, i) = 0
    /\ LimbAt(a, k \div LimbBits + 1) % 2^(k % LimbBits) = 0

Width(x) == CHOOSE k \in 1..LimbBits : 2^(k - 1) <= x /\ x < 2^k

\* The number of bits of a.
BitLength(a) == IF a = <<>> THEN 0 ELSE LimbBits * (Len(a) - 1) + Width(a[Len(a)])

\* The number of 0 bits below the lowest 1 bit of a # 0.
LowZeros(a) == CHOOSE z \in 0..(BitLength(a) - 1) : LowBitsZero(a, z) /\ BitOf(a, z + 1) = 1

\* 0.0
FZero == [neg |-> FALSE, m |-> <<>>, e |-> 0]

Canonical(neg, a, e, z) == [neg |-> neg, m |-> ShiftRight(a, z), e |-> e + z]

\* The float that is a * 2^e exactly, a of at most MantissaBits bits.
MakeFloat(neg, a, e) == IF a = <<>> THEN FZero ELSE Canonical(neg, a, e, LowZeros(a))

\* a / 2^k is nearer to the integer above it than to the one below, or as
\* near and the one below is odd.
RoundsUp(a, k) ==
    k >= 1 /\ BitOf(a, k) = 1 /\ (BitOf(a, k + 1) = 1 \/ ~LowBitsZero(a, k - 1))

\* The integer nearest to a / 2^k, a tie going to the even one.
NearestNat(a, k) ==
    IF RoundsUp(a, k) THEN AddNat(ShiftRight(a, k), <<1>>) ELSE ShiftRight(a, k)

RoundedAt(neg, a, e, k) == MakeFloat(neg, NearestNat(a, k), e + k)

\* The float nearest to a * 2^e.
RoundNat(neg, a, e) ==
    IF BitLength(a) <= MantissaBits THEN MakeFloat(neg, a, e)
    ELSE RoundedAt(neg, a, e, BitLength(a) - MantissaBits)

\* Long division of rem / d, rem < d <= 2 * Base: the first j limbs after the
\* point, the first of them last.
RECURSIVE FractionLimbs(_, _, _)
FractionLimbs(rem, d, j) ==
    IF j = 0 THEN <<>>
    ELSE FractionLimbs((rem * Base) % d, d, j - 1) \o <<(rem * Base) \div d>>

\* What is left of rem after j limbs.
RECURSIVE Remainder(_, _, _)
Remainder(rem, d, j) == IF j = 0 THEN rem ELSE Remainder((rem * Base) % d, d, j - 1)

\* floor(n * Base^GuardLimbs / d) doubled, plus one when a remainder is left.
Quotient(n, d) ==
    AddNat(TimesSmall(TrimNat(FractionLimbs(n % d, d, GuardLimbs) \o NatOf(n \div d)), 2),
           IF Remainder(n % d, d, GuardLimbs) = 0 THEN <<>> ELSE <<1>>)

\* The float nearest to n / d for integers n and 0 < d <= 2 * Base: float(n)
\* for d = 1, n / float(d), and float of the decimal text of n / d.
Float(n, d) ==
    IF n % d = 0 THEN MakeFloat(n < 0, NatOf(Abs(n) \div d), 0)
    ELSE RoundNat(n < 0, Quotient(Abs(n), d), -(GuardLimbs * LimbBits + 1))

FNeg(x) == IF x.m = <<>> THEN x ELSE [x EXCEPT !.neg = ~x.neg]

AddMagnitudes(xneg, a, yneg, b, e) ==
    IF xneg = yneg THEN RoundNat(xneg, AddNat(a, b), e)
    ELSE IF a = b THEN FZero
    ELSE IF LessNat(a, b) THEN RoundNat(yneg, SubNat(b, a), e)
    ELSE RoundNat(xneg, SubNat(a, b), e)

AddAligned(x, y, e) ==
    AddMagnitudes(x.neg, ShiftLeft(x.m, x.e - e), y.neg, ShiftLeft(y.m, y.e - e), e)

\* x + y
FAdd(x, y) ==
    IF x.m = <<>> THEN y
    ELSE IF y.m = <<>> THEN x
    ELSE AddAligned(x, y, IF x.e < y.e THEN x.e ELSE y.e)

\* x > 0
FPositive(x) == x.m # <<>> /\ ~x.neg

-----------------------------------------------------------------------------
(* Values: what a cell of a data frame, or any argument, can be            *)

\* None / NaN
Null == [kind |-> "null", num |-> FZero, text |-> <<>>, isna |-> <<>>]

\* an int or a float, as the float it is or converts to
Num(r) == [kind |-> "num", num |-> r, text |-> <<>>, isna |-> <<>>]

\* a str
Str(s) == [kind |-> "str", num |-> FZero, text |-> s, isna |-> <<>>]

\* a list of one or more elements: isna[i] tells whether element i is
\* None/NaN, text is str(v)
List(flags, s) == [kind |-> "list", num |-> FZero, text |-> s, isna |-> flags]

\* any other scalar object: text is str(v)
Obj(s) == [kind |-> "obj", num |-> FZero, text |-> s, isna |-> <<>>]

\* What a call gives: a float, or an exception leaving the function.
Returned(r) == [raised |-> FALSE, val |-> r]

Raised == [raised |-> TRUE, val |-> FZero]

-----------------------------------------------------------------------------
(* Duration Parser: parse_duration_value                                   *)

MinutesPerHour == 60

SecondsPerHour == 3600

\* The number of ':'-separated parts that are read.
MaxClockParts == 3

\* str.replace(',', '.')
CommaToDot(s) == [i \in 1..Len(s) |-> IF s[i] = "," THEN "." ELSE s[i]]

\* re.fullmatch(r'[+-]?\d+(\.\d+)?', s), scanning left to right: an optional
\* sign, the longest run of digits, then nothing or a '.' and digits to the end.
RECURSIVE DigitRun(_)
DigitRun(s) == IF s # <<>> /\ IsDigit(Head(s)) THEN 1 + DigitRun(Tail(s)) ELSE 0

Unsigned(s) == IF s # <<>> /\ Head(s) \in {"+", "-"} THEN Tail(s) ELSE s

IsFraction(rest) ==
    rest = <<>> \/ (Len(rest) >= 2 /\ Head(rest) = "." /\ AllDigits(Tail(rest)))

DecimalAfter(u, k) == k >= 1 /\ IsFraction(SubSeq(u, k + 1, Len(u)))

UnsignedIsDecimal(u) == DecimalAfter(u, DigitRun(u))

IsDecimal(s) == UnsignedIsDecimal(Unsigned(s))

\* float(s) of a string IsDecimal accepts
Magnitude(whole, frac) ==
    Float(IntOf(whole \o frac), Pow10(Len(frac)))

MagnitudeAt(u, k) == Magnitude(SubSeq(u, 1, k), SubSeq(u, k + 2, Len(u)))

UnsignedFloat(u) == MagnitudeAt(u, DigitRun(u))

FloatOf(s) ==
    IF Head(s) = "-" THEN FNeg(UnsignedFloat(Tail(s)))
    ELSE UnsignedFloat(Unsigned(s))

\* for p in parts[:3]: p = re.sub(r'[^\d]', '', p.strip());
\*                     nums.append(int(p) if p else 0)
FirstParts(parts) ==
    SubSeq(parts, 1, IF Len(parts) < MaxClockParts THEN Len(parts) ELSE MaxClockParts)

PartNums(parts) == [i \in 1..Len(parts) |-> IntOf(OnlyDigits(Strip(parts[i])))]

ClockNums(s) == PartNums(FirstParts(SplitOn(s, {":"})))

\* h + m/60.0 + sec/3600.0, sec = 0 when two numbers were read
ClockHoursSecondsAsMinutes(nums) ==
    FAdd(FAdd(Float(nums[1], 1), Float(nums[2], MinutesPerHour)),
         Float(IF Len(nums) = 2 THEN 0 ELSE nums[3], MinutesPerHour))

ClockHours(nums) ==
    FAdd(FAdd(Float(nums[1], 1), Float(nums[2], MinutesPerHour)),
         Float(IF Len(nums) = 2 THEN 0 ELSE nums[3], SecondsPerHour))

\* The body of the try block for a value that is no int or float, from
\* s = str(v).strip().replace(',', '.') on.
ParseCleaned(s) ==
    IF IsDecimal(s) THEN FloatOf(s)
    ELSE IF Contains(s, <<":">>) THEN ClockHours(ClockNums(s))
    ELSE FZero

ParseText(text) == ParseCleaned(CommaToDot(Strip(text)))

\* "if pd.isna(v)" stands before the try block.  pd.isna of a list is an
\* array, and the truth value of an array of two or more elements raises
\* ValueError; of one element it is that element's.
parse_duration_value(v) ==
    IF v.kind = "null" THEN Returned(FZero)
    ELSE IF v.kind = "list" /\ Len(v.isna) > 1 THEN Raised
    ELSE IF v.kind = "list" /\ v.isna[1] THEN Returned(FZero)
    ELSE IF v.kind = "num" THEN Returned(v.num)
    ELSE Returned(ParseText(v.text))

-----------------------------------------------------------------------------
(* Column Sniffer: normalize_col, find_duration_column                     *)

\* Python's None, where a column name or a mapping is expected.
None == <<"None">>

\* re.sub(r'[\s\(\)\-\.]', '', str(c).strip().lower())
NormDropped(c) == IsSpace(c) \/ c \in {"(", ")", "-", "."}

NormKept(c) == ~NormDropped(c)

normalize_col(c) == SelectSeq(Lower(Strip(c)), NormKept)

\* The keys of {normalize_col(c): c for c in cols} in iteration order: a key
\* stands where it was first inserted.
AppendNew(keys, n) ==
    IF \E i \in 1..Len(keys) : keys[i] = n THEN keys ELSE Append(keys, n)

RECURSIVE NormKeys(_)
NormKeys(cols) ==
    IF cols = <<>> THEN <<>>
    ELSE AppendNew(NormKeys(SubSeq(cols, 1, Len(cols) - 1)),
                   normalize_col(cols[Len(cols)]))

\* The values of the dict, key by key: the value of a key is the one last
\* assigned to it.
Norms(cols) == [i \in 1..Len(cols) |-> normalize_col(cols[i])]

LastWith(norms, n) ==
    CHOOSE i \in 1..Len(norms) :
        norms[i] = n /\ \A j \in (i + 1)..Len(norms) : norms[j] # n

DurationCandidates ==
    << <<"d","u","r","a","t","i","o","n","d","e","c","i","m","a","l">>,
       <<"d","u","r","a","t","i","o","n","h">>,
       <<"d","u","r","a","t","i","o","n">> >>

DurationHints ==
    { <<"d","u","r","a","t","i","o","n">>, <<"t","i","m","e">>,
      <<"h","o","u","r","s">> }

HasDurationHint(n) == \E h \in DurationHints : Contains(n, h)

\* for n, orig in norm_to_orig.items(): if 'duration' in n or ...: return orig
FirstHintedKey(keys) ==
    IF \E i \in 1..Len(keys) : HasDurationHint(keys[i])
    THEN keys[CHOOSE i \in 1..Len(keys) :
                  HasDurationHint(keys[i]) /\ \A j \in 1..(i - 1) : ~HasDurationHint(keys[j])]
    ELSE None

IsKey(keys, c) == \E i \in 1..Len(keys) : keys[i] = c

\* for candidate in ("durationdecimal", "durationh", "duration"):
\*     if candidate in norm_to_orig: return norm_to_orig[candidate]
\* The key whose value is returned, None when nothing is found.
ChosenKey(keys) ==
    IF \E k \in 1..Len(DurationCandidates) : IsKey(keys, DurationCandidates[k])
    THEN DurationCandidates[CHOOSE k \in 1..Len(DurationCandidates) :
             IsKey(keys, DurationCandidates[k])
                 /\ \A j \in 1..(k - 1) : ~IsKey(keys, DurationCandidates[j])]
    ELSE FirstHintedKey(keys)

ValueOfKey(cols, norms, key) ==
    IF key = None THEN None ELSE cols[LastWith(norms, key)]

find_duration_column(cols) == ValueOfKey(cols, Norms(cols), ChosenKey(NormKeys(cols)))

-----------------------------------------------------------------------------
(* Project Folder Aggregator: process_project_folder                       *)

\* sorted(names) of a set of strings
Least(S) == CHOOSE x \in S : \A y \in S \ {x} : StrLess(x, y)

RECURSIVE SortFrom(_, _)
SortFrom(S, least) ==
    IF S = {least} THEN <<least>>
    ELSE <<least>> \o SortFrom(S \ {least}, Least(S \ {least}))

SortStrings(S) == IF S = {} THEN <<>> ELSE SortFrom(S, Least(S))

CsvSuffix == <<".", "c", "s", "v">>

\* os.path.splitext(fname)[0]: the name up to its last '.', the whole name
\* when only dots stand before that '.'
LastDot(fname) ==
    CHOOSE i \in 1..Len(fname) :
        fname[i] = "." /\ \A j \in (i + 1)..Len(fname) : fname[j] # "."

RootBefore(fname, k) ==
    IF \A j \in 1..(k - 1) : fname[j] = "." THEN fname ELSE SubSeq(fname, 1, k - 1)

SplitExtRoot(fname) ==
    IF \E i \in 1..Len(fname) : fname[i] = "." THEN RootBefore(fname, LastDot(fname))
    ELSE fname

\* The number of hundredths in one.
RoundPlaces == 100

\* The float nearest to n hundredths: what round gives back.
Hundredths(neg, n) == Float(IF neg THEN -n ELSE n, RoundPlaces)

\* round(x, 2): the multiple of 1/100 nearest to the exact value of the float
\* x, a tie going to the even multiple.  (0.005 as a float is a little more
\* than 5/1000 and rounds to 0.01, 2.675 a little less and rounds to 2.67.)
Round2(x) ==
    IF x.m = <<>> \/ x.e >= 0 THEN x
    ELSE Hundredths(x.neg, IntOfNat(NearestNat(TimesSmall(x.m, RoundPlaces), -x.e)))

\* The sum of a sequence of floats, added to 0.0 one after the other from
\* the first on: the order of Series.sum() on the few rows of a file of the
\* model, and of sum() on the totals, whose rounded sum no other order changes.
RECURSIVE FloatSumFrom(_, _)
FloatSumFrom(acc, xs) ==
    IF xs = <<>> THEN acc ELSE FloatSumFrom(FAdd(acc, Head(xs)), Tail(xs))

FloatSum(xs) == FloatSumFrom(FZero, xs)

DescriptionHints ==
    { <<"d", "e", "s", "c", "r", "i", "p", "t", "i", "o", "n">>,
      <<"d", "e", "t", "a", "i", "l", "s">>,
      <<"n", "o", "t", "e">> }

HasDescriptionHint(n) == \E h \in DescriptionHints : Contains(n, h)

\* for c in df.columns: if 'description' in n or ...: desc_col = c; break
\* (0 when no column is found: desc_col stays None)
FirstDescription(norms) ==
    IF \E i \in 1..Len(norms) : HasDescriptionHint(norms[i])
    THEN CHOOSE i \in 1..Len(norms) :
             HasDescriptionHint(norms[i])
                 /\ \A j \in 1..(i - 1) : ~HasDescriptionHint(norms[j])
    ELSE 0

DescColumnIndex(columns) == FirstDescription(Norms(columns))

ColumnIndex(columns, name) == CHOOSE i \in 1..Len(columns) : columns[i] = name

\* A log line.  The texts the code formats are kept as their parts.
LogLine(kind, project, fname, total, column) ==
    [kind |-> kind, project |-> project, fname |-> fname, total |-> total,
     column |-> column]

Skipped(kind, project_folder, fname) ==
    [ok |-> FALSE, log |-> LogLine(kind, project_folder, fname, FZero, None)]

\* desc = row[desc_col] if desc_col and desc_col in row else ''
\* hrs = parse_duration_value(row[duration_col])
RowEntry(row, d, desc) ==
    << IF desc = 0 THEN Str(<<>>) ELSE row[desc], parse_duration_value(row[d]).val >>

RowEntries(rows, d, desc) == [i \in 1..Len(rows) |-> RowEntry(rows[i], d, desc)]

Hours(all) == [i \in 1..Len(all) |-> all[i][2]]

IsPositive(e) == FPositive(e[2])

\* month_totals[month_label] = {'total': total_hours, 'entries': entries}
\* and the line logged for the file
Aggregated1(project_folder, fname, duration_col, total_hours, entries) ==
    [ok     |-> TRUE,
     label  |-> SplitExtRoot(fname),
     record |-> [total |-> total_hours, entries |-> entries],
     log    |-> LogLine("ok", project_folder, fname, total_hours, duration_col)]

\* total_hours = round(float(hours_series.sum()), 2); the entries kept are
\* those with hrs > 0
MonthOfRows(project_folder, fname, duration_col, all) ==
    Aggregated1(project_folder, fname, duration_col,
                Round2(FloatSum(Hours(all))), SelectSeq(all, IsPositive))

WithDuration(project_folder, fname, df, duration_col) ==
    IF duration_col = None THEN Skipped("nocolumn", project_folder, fname)
    ELSE MonthOfRows(project_folder, fname, duration_col,
                     RowEntries(df.rows, ColumnIndex(df.columns, duration_col),
                                DescColumnIndex(df.columns)))

\* What one CSV file of a project folder gives: the log line, and for a file
\* that is aggregated the month record.
\*   df: [readable, columns, rows], a row being the cells under the columns
ProcessFile(project_folder, fname, df) ==
    IF ~df.readable THEN Skipped("unreadable", project_folder, fname)
    ELSE IF Len(df.rows) = 0 THEN Skipped("empty", project_folder, fname)
    ELSE WithDuration(project_folder, fname, df, find_duration_column(df.columns))

\* month_totals[month_label] = {...} on a dict kept as the sequence of its
\* items: a new key goes to the end, an old key keeps its place.
DictSet(dict, key, value) ==
    IF \E i \in 1..Len(dict) : dict[i][1] = key
    THEN [i \in 1..Len(dict) |-> IF dict[i][1] = key THEN <<key, value>> ELSE dict[i]]
    ELSE Append(dict, <<key, value>>)

\* One file done: its record stored when there is one, its line logged.
Accumulate(acc, r) ==
    [months |-> IF r.ok THEN DictSet(acc.months, r.label, r.record) ELSE acc.months,
     logs   |-> Append(acc.logs, r.log)]

IsCsv(fname) == EndsWith(Lower(fname), CsvSuffix)

\* The loop over sorted(os.listdir(path)): files is the part of the listing
\* still to visit, acc what the loop has built.
RECURSIVE ProcessFiles(_, _, _, _)
ProcessFiles(project_folder, folder, files, acc) ==
    IF files = <<>> THEN acc
    ELSE ProcessFiles(project_folder, folder, Tail(files),
             IF IsCsv(Head(files))
             THEN Accumulate(acc, ProcessFile(project_folder, Head(files),
                                              folder.files[Head(files)]))
             ELSE acc)

Outcome(isNone, raised, r) ==
    [isNone |-> isNone, raised |-> raised, months |-> r.months, logs |-> r.logs]

NothingYet == [months |-> <<>>, logs |-> <<>>]

\* process_project_folder(root_path, project_folder, logs): the month records
\* and the lines appended to logs.  os.listdir raises when the folder cannot
\* be listed, and nothing in the function catches it.
process_project_folder(entry, project_folder) ==
    IF ~entry.isdir THEN Outcome(TRUE, FALSE, NothingYet)
    ELSE IF ~entry.folder.listable THEN Outcome(FALSE, TRUE, NothingYet)
    ELSE Outcome(FALSE, FALSE,
                 ProcessFiles(project_folder, entry.folder,
                              SortStrings(DOMAIN entry.folder.files), NothingYet))

-----------------------------------------------------------------------------
(* Workbook Builder: generate_workbook_bytes                               *)

\* The longest sheet title openpyxl takes.
SheetTitleMax == 31

DefaultTitle == <<"S", "h", "e", "e", "t">>

NoDataTitle == <<"N", "o", "D", "a", "t", "a">>

IgnoredNames == { <<"v", "e", "n", "v">>, <<"_", "_", "p", "y", "c", "a", "c", "h", "e", "_", "_">> }

\* Workbook(): one empty sheet, the active one
NewWorkbook == << [id |-> 0, title |-> DefaultTitle, rows |-> <<>>] >>

SubHeaderRow == <<Str(<<"D", "e", "s", "c", "r", "i", "p", "t", "i", "o", "n">>), Str(<<"H", "o", "u", "r", "s">>)>>

EntryRows(entries) ==
    [i \in 1..Len(entries) |-> <<entries[i][1], Num(entries[i][2])>>]

\* The rows of one month: [mn, total], ["Description", "Hours"], the entries, []
MonthBlock(mn, record) ==
    (<< <<Str(mn), Num(record.total)>>, SubHeaderRow >> \o EntryRows(record.entries))
        \o << <<>> >>

DictGet(dict, key) == dict[CHOOSE i \in 1..Len(dict) : dict[i][1] = key][2]

DictKeys(dict) == [i \in 1..Len(dict) |-> dict[i][1]]

RECURSIVE MonthBlocks(_, _)
MonthBlocks(labels, dict) ==
    IF labels = <<>> THEN <<>>
    ELSE MonthBlock(Head(labels), DictGet(dict, Head(labels)))
             \o MonthBlocks(Tail(labels), dict)

Totals(dict) == [i \in 1..Len(dict) |-> dict[i][2].total]

\* The total that counts the first month only.
GrandTotalFirstMonth(dict) == Round2(Totals(dict)[1])

\* round(sum(m['total'] for m in month_totals.values()), 2)
GrandTotal(dict) == Round2(FloatSum(Totals(dict)))

TotalTitle == <<"T", "O", "T", "A", "L">>

HeaderRow == <<Str(<<"M", "o", "n", "t", "h">>), Str(<<"T", "o", "t", "a", "l", " ", "H", "o", "u", "r", "s">>)>>

\* ws.append([]); ws.append(["TOTAL", grand])
TotalRows(grand) == << <<>>, <<Str(TotalTitle), Num(grand)>> >>

SheetRows(dict) ==
    (<<HeaderRow>> \o MonthBlocks(SortMonthLabels(DictKeys(dict)), dict))
        \o TotalRows(GrandTotal(dict))

Truncate(s, n) == SubSeq(s, 1, IF Len(s) < n THEN Len(s) ELSE n)

IsIgnored(name) == Lower(name) \in IgnoredNames \/ StartsWith(name, <<".">>)

\* The roots the builder is run on.
MaxFiles == 2

Unreadable == [readable |-> FALSE, columns |-> <<>>, rows |-> <<>>]

EmptyCsv ==
    [readable |-> TRUE,
     columns  |-> << <<"D", "e", "s", "c", "r", "i", "p", "t", "i", "o", "n">>, <<"D", "u", "r", "a", "t", "i", "o", "n">> >>,
     rows     |-> <<>>]

NoDurationCsv ==
    [readable |-> TRUE,
     columns  |-> << <<"P", "r", "o", "j", "e", "c", "t">>, <<"D", "e", "s", "c", "r", "i", "p", "t", "i", "o", "n">> >>,
     rows     |-> << <<Str(<<"A">>), Str(<<"d", "e", "v">>)>> >>]

ClockCsv ==
    [readable |-> TRUE,
     columns  |-> << <<"D", "e", "s", "c", "r", "i", "p", "t", "i", "o", "n">>, <<"D", "u", "r", "a", "t", "i", "o", "n", " ", "(", "h", ")">> >>,
     rows     |-> << <<Str(<<"d", "e", "v">>), Str(<<"1", ",", "5">>)>>,
                     <<Str(<<"m", "t", "g">>), Str(<<"0", "2", ":", "3", "0">>)>>,
                     <<Null, Str(<<"g", "a", "r", "b", "a", "g", "e">>)>>,
                     <<Str(<<"o", "p", "s">>), Str(<<"0", ":", "4", "1", ":", "6">>)>> >>]

HoursCsv ==
    [readable |-> TRUE,
     columns  |-> << <<"H", "o", "u", "r", "s">> >>,
     rows     |-> << <<Num(Float(9, 4))>>, <<Num(Float(-1, 1))>> >>]

CsvContents == {Unreadable, EmptyCsv, NoDurationCsv, ClockCsv, HoursCsv}

CsvNames ==
    { <<"2", "0", "2", "4", "-", "0", "2", ".", "c", "s", "v">>,
      <<"2", "0", "2", "4", "-", "0", "2", ".", "C", "S", "V">>,
      <<"J", "a", "n", "u", "a", "r", "y", "_", "2", "0", "2", "4", ".", "c", "s", "v">> }

OtherNames == { <<"n", "o", "t", "e", "s", ".", "t", "x", "t">> }

\* The folders of at most MaxFiles files, and a folder that cannot be listed.
Folders ==
    {[listable |-> TRUE, files |-> f] :
        f \in UNION {[N -> CsvContents] :
                        N \in {M \in SUBSET (CsvNames \cup OtherNames) :
                                  Cardinality(M) <= MaxFiles}}}

ListedFolders ==
    {d \in Folders : \A n \in DOMAIN d.files \cap OtherNames : d.files[n] = Unreadable}

Unlistable == [listable |-> FALSE, files |-> <<>>]

Dir(d) == [isdir |-> TRUE, folder |-> d]

PlainFile == [isdir |-> FALSE, folder |-> Unlistable]

ProjectA == <<"A">>

ProjectB == <<"B">>

\* Folders the walk must pass over, each holding a CSV file that would give
\* a sheet.
PassedOver ==
    ( <<".", "g", "i", "t">> :> Dir([listable |-> TRUE, files |-> (<<"2", "0", "2", "4", "-", "0", "2", ".", "c", "s", "v">> :> ClockCsv)]) @@
      <<"V", "e", "n", "v">> :> Dir([listable |-> TRUE, files |-> (<<"2", "0", "2", "4", "-", "0", "2", ".", "c", "s", "v">> :> HoursCsv)]) )

Restrict(f, S) == [x \in S |-> f[x]]

\* What a name of the root can be: nothing, a file, or a folder.
Entries(folders) == {<<>>, PlainFile, Dir(Unlistable)} \cup {Dir(d) : d \in folders}

\* The folders of one file at most.
SmallFolders == {d \in ListedFolders : Cardinality(DOMAIN d.files) <= 1}

\* The roots: project A any entry, project B an entry of one file at most,
\* with or without the folders to pass over.
Roots ==
    {Restrict(f, {n \in DOMAIN f : f[n] # <<>>}) @@ extra :
        f \in {ProjectA :> a @@ ProjectB :> b :
                  a \in Entries(ListedFolders), b \in Entries(SmallFolders)},
        extra \in {<<>>, PassedOver}}

ProjectNames == {ProjectA, ProjectB}

\* process_project_folder(root, item, logs) for every project folder a root of
\* the model can hold, computed once.
Aggregated ==
    [n \in ProjectNames, e \in {Dir(Unlistable)} \cup {Dir(d) : d \in ListedFolders} |->
        process_project_folder(e, n)]

\* The loop body of generate_workbook_bytes runs once per item of
\* sorted(os.listdir(root)); each action below is one way through it.
Visiting ==
    /\ pc = "walk"
    /\ todo # <<>>
    /\ item' = Head(todo)
    /\ todo' = Tail(todo)
    /\ UNCHANGED <<arg, ret, root>>

\* if not os.path.isdir(folder): continue
SkipNotDir ==
    /\ Visiting
    /\ ~root[Head(todo)].isdir
    /\ UNCHANGED <<pc, wb, added, project_summaries, logs, month_totals>>

\* if item.lower() in ('venv', '__pycache__') or item.startswith('.'): continue
SkipIgnored ==
    /\ Visiting
    /\ root[Head(todo)].isdir
    /\ IsIgnored(Head(todo))
    /\ UNCHANGED <<pc, wb, added, project_summaries, logs, month_totals>>

HeaderLine(name) == LogLine("project", name, <<>>, FZero, None)

NoMonthsLine(name) == LogLine("nomonths", name, <<>>, FZero, None)

\* process_project_folder raises: the exception leaves generate_workbook_bytes
Raises(name, r) ==
    /\ r.raised
    /\ logs' = Append(logs, HeaderLine(name))
    /\ pc' = "raised"
    /\ UNCHANGED <<wb, added, project_summaries, month_totals>>

\* if not month_totals: logs.append(...); continue
NoMonths(name, r) ==
    /\ ~r.raised
    /\ r.isNone \/ r.months = <<>>
    /\ month_totals' = r.months
    /\ logs' = (Append(logs, HeaderLine(name)) \o r.logs) \o <<NoMonthsLine(name)>>
    /\ UNCHANGED <<pc, wb, added, project_summaries>>

\* ws = wb.create_sheet(title=item[:31]) and the rows appended to it
NewSheet(name, rows) ==
    wb' = Append(wb, [id |-> Len(wb), title |-> Truncate(name, SheetTitleMax),
                      rows |-> rows])

\* project_summaries.append({'project': item, 'total_hours': grand})
NewSummary(name, grand) ==
    project_summaries' =
        Append(project_summaries, [project |-> name, total_hours |-> grand])

\* the sheet of a project, its summary entry, added += 1
Sheet(name, r) ==
    /\ ~r.raised
    /\ ~r.isNone /\ r.months # <<>>
    /\ month_totals' = r.months
    /\ logs' = Append(logs, HeaderLine(name)) \o r.logs
    /\ NewSheet(name, SheetRows(r.months))
    /\ NewSummary(name, GrandTotal(r.months))
    /\ added' = added + 1
    /\ UNCHANGED pc

VisitProject(name) == Visiting /\ root[name].isdir /\ ~IsIgnored(name)

ProjectRaises ==
    /\ VisitProject(Head(todo))
    /\ Raises(Head(todo), Aggregated[Head(todo), root[Head(todo)]])

ProjectSkipped ==
    /\ VisitProject(Head(todo))
    /\ NoMonths(Head(todo), Aggregated[Head(todo), root[Head(todo)]])

ProjectSheet ==
    /\ VisitProject(Head(todo))
    /\ Sheet(Head(todo), Aggregated[Head(todo), root[Head(todo)]])

\* after the loop: the default sheet is removed, or retitled "NoData"
\* The builder that leaves the sheet the workbook was created with.
KeepDefault(book) == book

RemoveDefault(book) == SelectSeq(book, LAMBDA sh : sh.id # 0)

Finish ==
    /\ pc = "walk"
    /\ todo = <<>>
    /\ wb' = IF added > 0 THEN RemoveDefault(wb)
             ELSE [wb EXCEPT ![1].title = NoDataTitle]
    /\ pc' = "done"
    /\ UNCHANGED <<arg, ret, root, todo, added, project_summaries, logs, item,
                   month_totals>>

Init ==
    /\ pc = "walk"
    /\ arg = <<>>
    /\ ret = <<>>
    /\ root \in Roots
    /\ todo = SortStrings(DOMAIN root)
    /\ wb = NewWorkbook
    /\ added = 0
    /\ project_summaries = <<>>
    /\ logs = <<>>
    /\ item = <<>>
    /\ month_totals = <<>>

Next ==
    \/ SkipNotDir
    \/ SkipIgnored
    \/ ProjectRaises
    \/ ProjectSkipped
    \/ ProjectSheet
    \/ Finish

Spec == Init /\ [][Next]_vars

-----------------------------------------------------------------------------
(* The pure functions under check: each is called once on an argument      *)
(* drawn from a bounded set.                                               *)

\* Longest list of labels sorted, longest list of column names sniffed,
\* longest generated duration text.
MaxLabels == 3

MaxCols == 3

MaxTextLen == 4

\* Lists of at most n distinct elements of S
DistinctSeqs(S, n) ==
    UNION {{q \in [1..k -> S] : \A i, j \in 1..k : i # j => q[i] # q[j]} : k \in 0..n}

LabelPool ==
    { <<>>,
      <<"r", "a", "n", "d", "o", "m">>,
      <<"2", "0", "2", "4", "-", "0", "1">>,
      <<"2", "0", "2", "4", "-", "0", "2">>,
      <<"1", "9", "9", "9", "-", "1", "2">>,
      <<"2", "0", "0", "1", "-", "0", "1">>,
      <<"0", "0", "1", "0", "-", "0", "1">>,
      <<"J", "a", "n", "u", "a", "r", "y", "_", "2", "0", "2", "4">>,
      <<"M", "a", "r", "c", "h", "_", "2", "0", "2", "4">>,
      <<"D", "e", "c", "e", "m", "b", "e", "r", "_", "1", "9", "9", "9">>,
      <<"J", "a", "n", "u", "a", "r", "y", "_", "0", "0", "0", "0">>,
      <<"J", "a", "n", "u", "a", "r", "y">>,
      <<"r", "e", "p", "o", "r", "t", "-", "m", "a", "r", "c", "h">>,
      <<"F", "e", "b", "_", "2", "0", "2", "4">> }

ColumnPool ==
    { <<"S", "t", "a", "r", "t", " ", "D", "a", "t", "e">>,
      <<"D", "u", "r", "a", "t", "i", "o", "n", " ", "(", "h", ")">>,
      <<"D", "e", "s", "c", "r", "i", "p", "t", "i", "o", "n">>,
      <<"D", "u", "r", "a", "t", "i", "o", "n">>,
      <<"d", "u", "r", "a", "t", "i", "o", "n", " ">>,
      <<"T", "i", "m", "e">>,
      <<"t", "i", "m", "e">>,
      <<"B", "i", "l", "l", "a", "b", "l", "e", " ", "H", "o", "u", "r", "s">>,
      <<"D", "u", "r", "a", "t", "i", "o", "n", " ", "(", "d", "e", "c", "i", "m", "a", "l", ")">>,
      <<"P", "r", "o", "j", "e", "c", "t">> }

DurationAlphabet == {"0", "5", ":", ",", ".", "-", "+", " ", "g"}

DurationTexts ==
    { <<"9", "0">>,
      <<"1", ",", "5">>,
      <<"0", "2", ":", "3", "0">>,
      <<"0", "1", ":", "3", "0", ":", "0", "0">>,
      <<"g", "a", "r", "b", "a", "g", "e">>,
      <<"1", ":", "3", "0", ":", "4", "5", ":", "1", "0">>,
      <<" ", "7", " ">>,
      <<"-", "1", ":", "3", "0">>,
      <<"1", "h", ":", "3", "0", "m">>,
      <<"-", "2", ",", "5", "0">>,
      <<"0", ":", "0", ":", "1", "8">>,
      <<"0", ":", "4", "1", ":", "6">>,
      <<"0", ":", "6", ":", "1", "8">>,
      <<"2", ".", "6", "7", "5">> }

TextPool == DurationTexts \cup UNION {[1..k -> DurationAlphabet] : k \in 0..MaxTextLen}

DurationInputs ==
    {Null}
    \cup {Num(Float(r[1], r[2])) : r \in {<<0, 1>>, <<90, 1>>, <<-3, 2>>, <<5, 4>>, <<1, 200>>}}
    \cup {Str(x) : x \in TextPool}
    \cup {List(<<FALSE, FALSE>>, <<"[", "1", ",", " ", "2", "]">>),
          List(<<TRUE>>, <<"[", "N", "o", "n", "e", "]">>),
          List(<<FALSE>>, <<"[", "'", "1", ":", "3", "0", "'", "]">>)}
    \cup {Obj(<<"(", "1", ",", " ", "2", ")">>), Obj(<<"0", "1", ":", "3", "0", ":", "0", "0">>)}

NotCalled == <<>>

BuilderIdle ==
    /\ root = <<>>
    /\ todo = <<>>
    /\ wb = <<>>
    /\ added = 0
    /\ project_summaries = <<>>
    /\ logs = <<>>
    /\ item = <<>>
    /\ month_totals = <<>>

BuilderUnchanged ==
    UNCHANGED <<root, todo, wb, added, project_summaries, logs, item, month_totals>>

\* sorted(labels, key=month_sort_key), with the key of each label
InitMonths ==
    /\ pc = "call"
    /\ arg \in DistinctSeqs(LabelPool, MaxLabels)
    /\ ret = NotCalled
    /\ BuilderIdle

SortMonths ==
    /\ pc = "call"
    /\ ret' = [sorted |-> SortMonthLabels(arg),
               keys   |-> [i \in 1..Len(arg) |-> month_sort_key(arg[i])]]
    /\ pc' = "return"
    /\ UNCHANGED arg
    /\ BuilderUnchanged

SpecMonths == InitMonths /\ [][SortMonths]_vars

\* parse_duration_value(v)
InitDuration ==
    /\ pc = "call"
    /\ arg \in DurationInputs
    /\ ret = NotCalled
    /\ BuilderIdle

ParseDuration ==
    /\ pc = "call"
    /\ ret' = parse_duration_value(arg)
    /\ pc' = "return"
    /\ UNCHANGED arg
    /\ BuilderUnchanged

SpecDuration == InitDuration /\ [][ParseDuration]_vars

\* find_duration_column(cols)
InitColumns ==
    /\ pc = "call"
    /\ arg \in DistinctSeqs(ColumnPool, MaxCols)
    /\ ret = NotCalled
    /\ BuilderIdle

FindDuration ==
    /\ pc = "call"
    /\ ret' = find_duration_column(arg)
    /\ pc' = "return"
    /\ UNCHANGED arg
    /\ BuilderUnchanged

SpecColumns == InitColumns /\ [][FindDuration]_vars

-----------------------------------------------------------------------------
(* Month Label Orderer: the claims                                         *)

\* A label of the form YYYY-MM or YYYY_MM.
IsYearMonthLabel(l) ==
    /\ Len(l) = 7
    /\ \A i \in {1, 2, 3, 4, 6, 7} : IsDigit(l[i])
    /\ l[5] = "-" \/ l[5] = "_"

\* The tokens of a label that are a full English month name, a 4-digit year.
MonthTokens(l) == {i \in 1..Len(LabelParts(l)) : LabelParts(l)[i] \in DOMAIN MONTH_MAP}

YearTokens(l) ==
    {i \in 1..Len(LabelParts(l)) :
        Len(LabelParts(l)[i]) = 4 /\ AllDigits(LabelParts(l)[i])}

Min(S) == CHOOSE x \in S : \A y \in S : x <= y

HasMonthName(l) == ~IsYearMonthLabel(l) /\ MonthTokens(l) # {}

IsRecognised(l) == IsYearMonthLabel(l) \/ HasMonthName(l)

\* A label that carries a year and a month, and the two.
IsDated(l) == IsYearMonthLabel(l) \/ (HasMonthName(l) /\ YearTokens(l) # {})

YearOf(l) ==
    IF IsYearMonthLabel(l) THEN IntOf(SubSeq(l, 1, 4))
    ELSE IntOf(LabelParts(l)[Min(YearTokens(l))])

MonthOf(l) ==
    IF IsYearMonthLabel(l) THEN IntOf(SubSeq(l, 6, 7))
    ELSE MONTH_MAP[LabelParts(l)[Min(MonthTokens(l))]]

Sorted == pc = "return" /\ arg # <<>>

\* C1: in the sorted list every label that is not recognised as a date
\* stands after every recognised label.
C1_UnrecognisedSortLast ==
    Sorted =>
        \A i, j \in 1..Len(ret.sorted) :
            (IsRecognised(ret.sorted[i]) /\ ~IsRecognised(ret.sorted[j])) => i < j

\* C2: a label with a month name and no 4-digit year token has the key
\* 2000*100 + month: it stands after every label dated 1999 or earlier and
\* before every label dated 2001 or later.
C2_NoYearSortsAsYear2000 ==
    Sorted =>
        /\ \A i \in 1..Len(arg) :
               (HasMonthName(arg[i]) /\ YearTokens(arg[i]) = {})
                   => ret.keys[i][1] = 2000 * 100 + MonthOf(arg[i])
        /\ \A i, j \in 1..Len(ret.sorted) :
               (/\ HasMonthName(ret.sorted[i]) /\ YearTokens(ret.sorted[i]) = {}
                /\ IsDated(ret.sorted[j]))
                   => /\ YearOf(ret.sorted[j]) < 2000 => j < i
                      /\ YearOf(ret.sorted[j]) > 2000 => i < j

\* C3: two labels that each carry a year and a month stand in the order of
\* their (year, month), and in the order of the label strings when these are
\* equal.
C3_DatedLabelsInCalendarOrder ==
    Sorted =>
        \A i, j \in 1..Len(ret.sorted) :
            (i < j /\ IsDated(ret.sorted[i]) /\ IsDated(ret.sorted[j])) =>
                \/ YearOf(ret.sorted[i]) < YearOf(ret.sorted[j])
                \/ /\ YearOf(ret.sorted[i]) = YearOf(ret.sorted[j])
                   /\ MonthOf(ret.sorted[i]) < MonthOf(ret.sorted[j])
                \/ /\ YearOf(ret.sorted[i]) = YearOf(ret.sorted[j])
                   /\ MonthOf(ret.sorted[i]) = MonthOf(ret.sorted[j])
                   /\ StrLess(ret.sorted[i], ret.sorted[j])

-----------------------------------------------------------------------------
(* Duration Parser: the claims                                             *)

\* C4: parse_duration_value returns a float for every input and never
\* raises; a missing value gives 0.0.
C4_ParseNeverRaises ==
    pc = "return" =>
        /\ ~ret.raised
        /\ arg.kind = "null" => ret.val = FZero

\* The numbers the claim speaks of: rationals <<numerator, denominator>> in
\* lowest terms.
RECURSIVE Gcd(_, _)
Gcd(a, b) == IF b = 0 THEN a ELSE Gcd(b, a % b)

Rat(n, d) == <<n \div Gcd(Abs(n), d), d \div Gcd(Abs(n), d)>>

Zero == <<0, 1>>

RatAdd(a, b) == Rat(a[1] * b[2] + b[1] * a[2], a[2] * b[2])

\* The text the claim speaks of: trimmed, ',' replaced by '.'.
Cleaned(text) == CommaToDot(Strip(text))

SignOf(s) == IF s # <<>> /\ s[1] = "-" THEN -1 ELSE 1

Body(s) == IF s # <<>> /\ (s[1] = "+" \/ s[1] = "-") THEN SubSeq(s, 2, Len(s)) ELSE s

\* Where the '.' of a decimal number stands in its body, 0 for a whole number.
DotAt(b) == IF \E k \in 1..Len(b) : b[k] = "." THEN CHOOSE k \in 1..Len(b) : b[k] = "." ELSE 0

\* The whole string is an optionally signed decimal number.
IsSignedDecimal(s) ==
    LET b == Body(s)
        k == DotAt(b)
    IN  IF k = 0 THEN b # <<>> /\ \A i \in 1..Len(b) : IsDigit(b[i])
        ELSE /\ k > 1 /\ k < Len(b)
             /\ \A i \in 1..Len(b) : i # k => IsDigit(b[i])

\* The value of a string of digits, by place value.
RECURSIVE PlaceValue(_)
PlaceValue(ds) ==
    IF ds = <<>> THEN 0
    ELSE DigitVal(Head(ds)) * Pow10(Len(ds) - 1) + PlaceValue(Tail(ds))

\* The number a signed decimal string denotes.
DecimalValue(s) ==
    LET b == Body(s)
        k == DotAt(b)
        w == IF k = 0 THEN b ELSE SubSeq(b, 1, k - 1)
        f == IF k = 0 THEN <<>> ELSE SubSeq(b, k + 1, Len(b))
    IN  Rat(SignOf(s) * (PlaceValue(w) * Pow10(Len(f)) + PlaceValue(f)), Pow10(Len(f)))

Colons(s) == {i \in 1..Len(s) : s[i] = ":"}

\* The j-th ':'-separated segment of s, its digits only; empty when there is
\* no j-th segment.
SegmentDigits(s, j) ==
    LET before == {i \in Colons(s) : Cardinality({c \in Colons(s) : c < i}) = j - 2}
        after  == {i \in Colons(s) : Cardinality({c \in Colons(s) : c < i}) = j - 1}
        lo     == IF j = 1 THEN 0 ELSE IF before = {} THEN Len(s) + 1 ELSE Min(before)
        hi     == IF after = {} THEN Len(s) + 1 ELSE Min(after)
    IN  SelectSeq(SubSeq(s, lo + 1, hi - 1), IsDigit)

\* hours + minutes/60 + seconds/3600 of the first three segments
ClockValue(s) ==
    RatAdd(RatAdd(<<PlaceValue(SegmentDigits(s, 1)), 1>>,
                  Rat(PlaceValue(SegmentDigits(s, 2)), 60)),
           Rat(PlaceValue(SegmentDigits(s, 3)), 3600))

ClaimedHours(s) ==
    IF IsSignedDecimal(s) THEN DecimalValue(s)
    ELSE IF Colons(s) # {} THEN ClockValue(s)
    ELSE Zero

DurationExamples ==
    ( <<"9", "0">> :> <<90, 1>> @@
      <<"1", ",", "5">> :> <<3, 2>> @@
      <<"0", "2", ":", "3", "0">> :> <<5, 2>> @@
      <<"0", "1", ":", "3", "0", ":", "0", "0">> :> <<3, 2>> @@
      <<>> :> <<0, 1>> @@
      <<"g", "a", "r", "b", "a", "g", "e">> :> <<0, 1>> )

\* The float nearest to a rational.
FloatOfRat(r) == Float(r[1], r[2])

\* The place of the leading bit of a float.
Top(x) == x.e + BitLength(x.m)

\* f is g, or differs from it by less than 4 units in the last place of g:
\* what the roundings of two divisions and two additions can add up to.
Near(f, g) ==
    \/ f = g
    \/ g.m # <<>> /\ Top(FAdd(f, FNeg(g))) <= Top(g) - (MantissaBits - 2)

\* C5: for a string, parse_duration_value returns the number itself when the
\* trimmed string (',' read as '.') is an optionally signed decimal number,
\* else hours + minutes/60 + seconds/3600 of its first three ':'-separated
\* segments (digits only, an empty segment 0) when it holds a ':', else 0.0;
\* "90" gives 90.0, "1,5" 1.5, "02:30" 2.5, "01:30:00" 1.5, "" and "garbage" 0.0.
\* The number itself is the float nearest to it; the sum of a clock text is
\* met to the accuracy of float arithmetic.
C5_StringDurations ==
    (pc = "return" /\ arg.kind = "str") =>
        /\ ~ret.raised
        /\ IF IsSignedDecimal(Cleaned(arg.text))
           THEN ret.val = FloatOfRat(DecimalValue(Cleaned(arg.text)))
           ELSE Near(ret.val, FloatOfRat(ClaimedHours(Cleaned(arg.text))))
        /\ arg.text \in DOMAIN DurationExamples
               => ret.val = FloatOfRat(DurationExamples[arg.text])

\* A clock text of hours, minutes and seconds parsed: 18 seconds, 0.005 hours.
C5_Witness ==
    /\ pc = "return"
    /\ arg = Str(<<"0", ":", "0", ":", "1", "8">>)
    /\ ret = Returned(Float(1, 200))

-----------------------------------------------------------------------------
(* Column Sniffer: the claims                                              *)

Qualifies(c) == HasDurationHint(normalize_col(c))

PresentCandidates(cols) ==
    {k \in 1..Len(DurationCandidates) :
        \E i \in 1..Len(cols) : normalize_col(cols[i]) = DurationCandidates[k]}

\* C6: the column returned is one whose normalised name is the first
\* candidate present; with no candidate present it is the earliest column,
\* in the original order, whose normalised name has a hint; it is None only
\* when no column has one; and it is always one of the columns given.
C6_DurationColumnChoice ==
    pc = "return" =>
        /\ ret # None => \E i \in 1..Len(arg) : arg[i] = ret
        /\ ret = None <=> \A i \in 1..Len(arg) : ~Qualifies(arg[i])
        /\ PresentCandidates(arg) # {}
               => normalize_col(ret) = DurationCandidates[Min(PresentCandidates(arg))]
        /\ (PresentCandidates(arg) = {} /\ \E i \in 1..Len(arg) : Qualifies(arg[i]))
               => ret = arg[Min({i \in 1..Len(arg) : Qualifies(arg[i])})]
-----------------------------------------------------------------------------
(* Project Folder Aggregator and Workbook Builder: the claims              *)

\* The project folders of the root: its folders that are not passed over.
ProjectFolders == {n \in DOMAIN root : root[n].isdir /\ ~IsIgnored(n)}

\* A CSV file that can be aggregated: readable, with rows, with a duration
\* column.
IsGoodCsv(fname, df) ==
    /\ IsCsv(fname)
    /\ df.readable
    /\ Len(df.rows) > 0
    /\ \E i \in 1..Len(df.columns) : Qualifies(df.columns[i])

CsvFiles(n) == {f \in DOMAIN root[n].folder.files : IsCsv(f)}

YieldsMonths(n) ==
    \E f \in CsvFiles(n) : IsGoodCsv(f, root[n].folder.files[f])

HasLine(kind, n, f) ==
    \E i \in 1..Len(logs) :
        logs[i].kind = kind /\ logs[i].project = n /\ logs[i].fname = f

\* C7: no failure at a file or a project folder aborts the walk: no error
\* leaves the builder, and when it is done every project folder was entered
\* and every CSV file of it was attempted, a failing one leaving its log line.
C7_WalkNeverAborts ==
    /\ pc # "raised"
    /\ pc = "done" =>
           \A n \in ProjectFolders :
               /\ HasLine("project", n, <<>>)
               /\ \A f \in CsvFiles(n) :
                      IF IsGoodCsv(f, root[n].folder.files[f]) THEN HasLine("ok", n, f)
                      ELSE \/ HasLine("unreadable", n, f)
                           \/ HasLine("empty", n, f)
                           \/ HasLine("nocolumn", n, f)
               /\ ~YieldsMonths(n) => HasLine("nomonths", n, <<>>)

\* C8: when the builder is done the workbook has one sheet for each project
\* folder that yielded a month record, in name order, and no other; the
\* summaries have one entry per sheet; with no such folder the workbook is the
\* single sheet "NoData" and the summaries are empty.
C8_OneSheetPerProject ==
    pc = "done" =>
        LET expected == {n \in ProjectFolders : YieldsMonths(n)}
        IN  /\ Len(wb) >= 1
            /\ Len(project_summaries) = Cardinality(expected)
            /\ {project_summaries[i].project : i \in 1..Len(project_summaries)} = expected
            /\ \A i, j \in 1..Len(project_summaries) :
                   i < j => StrLess(project_summaries[i].project,
                                    project_summaries[j].project)
            /\ IF expected = {}
               THEN Len(wb) = 1 /\ wb[1].title = NoDataTitle /\ wb[1].rows = <<>>
               ELSE /\ Len(wb) = Cardinality(expected)
                    /\ \A i \in 1..Len(wb) :
                           /\ wb[i].title # DefaultTitle
                           /\ wb[i].title =
                                  Truncate(project_summaries[i].project, SheetTitleMax)

\* Two projects, one with a sheet and one without, beside passed-over folders.
C8_Witness ==
    /\ pc = "done"
    /\ Len(wb) = 1
    /\ wb[1].title = ProjectB
    /\ ProjectA \in ProjectFolders
    /\ CsvFiles(ProjectA) # {}
    /\ DOMAIN PassedOver \subseteq DOMAIN root

\* The rows of a sheet that show a month total: the row after the header and
\* every row after a blank row, the blank rows and the last row apart.
MonthRowsAt(rows) ==
    {i \in 2..(Len(rows) - 1) : Len(rows[i]) > 0 /\ (i = 2 \/ Len(rows[i - 1]) = 0)}

RECURSIVE SumShown(_, _)
SumShown(rows, I) ==
    IF I = {} THEN FZero
    ELSE FAdd(rows[Min(I)][2].num, SumShown(rows, I \ {Min(I)}))

\* The last item visited was a project folder that was aggregated.
Aggregating == pc # "raised" /\ item # <<>> /\ item \in ProjectFolders

\* C9: the last row of a project sheet is ["TOTAL", g], g the rounded sum of
\* the totals its month rows show, the summary entry of the project holds the
\* same g, and every month record of the project is shown in exactly one
\* month row.
C9_TotalRowIsSumOfMonthRows ==
    /\ \A k \in 1..Len(wb) :
           wb[k].id # 0 =>
               LET rows == wb[k].rows
                   g    == Round2(SumShown(rows, MonthRowsAt(rows)))
               IN  /\ rows[Len(rows)] = <<Str(TotalTitle), Num(g)>>
                   /\ project_summaries[wb[k].id].project = wb[k].title
                   /\ project_summaries[wb[k].id].total_hours = g
    /\ (Aggregating /\ month_totals # <<>>) =>
           LET rows == wb[Len(wb)].rows
           IN  /\ wb[Len(wb)].title = item
               /\ Cardinality(MonthRowsAt(rows)) = Len(month_totals)
               /\ \A m \in 1..Len(month_totals) :
                      Cardinality({i \in MonthRowsAt(rows) :
                          rows[i] = <<Str(month_totals[m][1]),
                                      Num(month_totals[m][2].total)>>}) = 1

\* A sheet of two months, 4.69 and 1.25 hours, and its total row of 5.94.
C9_Witness ==
    /\ pc = "done"
    /\ Len(wb) >= 1
    /\ Cardinality(MonthRowsAt(wb[1].rows)) = 2
    /\ wb[1].rows[Len(wb[1].rows)] = <<Str(TotalTitle), Num(Float(594, 100))>>
    /\ project_summaries[1].total_hours = Float(594, 100)

OkLines(n) == SelectSeq(logs, LAMBDA l : l.kind = "ok" /\ l.project = n)

\* C10: the month records of a project folder are as many as its files with
\* a success line, and the total of each such file is part of the grand
\* total of the project.
C10_OneRecordPerProcessedFile ==
    Aggregating =>
        /\ Len(month_totals) = Len(OkLines(item))
        /\ month_totals # <<>> =>
               project_summaries[Len(project_summaries)].total_hours =
                   Round2(FloatSum([i \in 1..Len(OkLines(item)) |-> OkLines(item)[i].total]))

=============================================================================
